---- MODULE Spec2Model ----
(***************************************************************************)
(* Model of src/define.rs of arm-gic-driver: the interrupt identifier      *)
(* space (IntId), the CPU affinity encoding (CPUTarget) and the raw        *)
(* affinity register layout (MPID).                                        *)
(*                                                                         *)
(* The functions of define.rs are pure.  Each specification below is a     *)
(* caller that invokes them on arguments drawn from bounded sets and       *)
(* keeps the last call and its outcome in the state.  A behaviour is one    *)
(* such use: a value is made once and then inspected any number of times.  *)
(***************************************************************************)
EXTENDS Integers, Naturals, Sequences, FiniteSets, TLC

VARIABLES
    ctor,       \* the IntId constructor last called: "none", "raw", "sgi", "ppi", "spi"
    arg,        \* its u32 argument
    aborted,    \* TRUE when its assert! failed
    id,         \* the field IntId.0 of the value it returned, NoId when there is none
    obs,        \* the last method called on that IntId, with its result
    packed,     \* the eight bytes a caller packed into a raw register value
    rawReg,     \* the raw 64-bit register value handed to MPID::from
    conv,       \* the conversion that made mpid: "none", "u64", "usize"
    mpid,       \* the MPID produced by From<u64> / From<usize>
    origin,     \* where target comes from: "none", "fields", "CORE0", "mpid"
    target,     \* the CPUTarget under inspection
    cpuObs      \* the last method called on that CPUTarget, with its result

vars == <<ctor, arg, aborted, id, obs, packed, rawReg, conv, mpid, origin, target, cpuObs>>

intIdVars == <<ctor, arg, aborted, id, obs>>
mpidVars  == <<packed, rawReg, conv, mpid>>
cpuVars   == <<origin, target, cpuObs>>

----------------------------------------------------------------------------
(* Bounds of the model *)

\* constructor arguments 0..MaxArg are enumerated, plus one huge value
MaxArg == 1100

\* aff0 values 0..MaxAffLow are enumerated, plus 128 and 255
MaxAffLow == 8

\* bytes 0..MaxRegByte are enumerated for a raw register, plus 255
MaxRegByte == 1

----------------------------------------------------------------------------
(* Machine integers *)

RECURSIVE Pow2(_)
Pow2(k) == IF k = 0 THEN 1 ELSE 2 * Pow2(k - 1)

\* u8 values are numbers.  u32 values of the IntId functions are numbers too:
\* every one the functions compute is below 2^11.  The u32 and u64 values of
\* the affinity encoding use all their bits and are bit vectors: a sequence
\* of w bits, bit 1 being the least significant.

\* b as u32, b as u64: zero extension of a u8 to w bits
ZeroExtend(b, w) == [i \in 1 .. w |-> IF i <= 8 THEN (b \div Pow2(i - 1)) % 2 ELSE 0]

\* x << k on a w-bit value: the bits shifted out at the top are lost
Shl(x, k) == [i \in 1 .. Len(x) |-> IF i <= k THEN 0 ELSE x[i - k]]

\* x | y
BitOr(x, y) == [i \in 1 .. Len(x) |-> IF x[i] = 1 \/ y[i] = 1 THEN 1 ELSE 0]

\* byte k of a bit vector as a number, byte 0 being the least significant
RECURSIVE BitsValue(_, _, _)
BitsValue(x, lo, n) ==
    IF n = 0 THEN 0 ELSE x[lo] + 2 * BitsValue(x, lo + 1, n - 1)

ByteOf(x, k) == BitsValue(x, 8 * k + 1, 8)

\* x as u8: the low 8 bits
TruncU8(x) == ByteOf(x, 0)

----------------------------------------------------------------------------
(* Interrupt-ID ranges: Range { start, end }, end exclusive *)

SGI_RANGE     == [start |-> 0,    end |-> 16]
PPI_RANGE     == [start |-> 16,   end |-> 32]
SPI_RANGE     == [start |-> 32,   end |-> 1020]
SPECIAL_RANGE == [start |-> 1020, end |-> 1024]

Contains(r, v) == r.start <= v /\ v < r.end

NoId  == -1
NoObs == [op |-> "none"]

\* The outcome of a constructor: the assert! either fails (abort, no value)
\* or the value Self(v) is returned.
Abort   == [aborted |-> TRUE,  id |-> NoId]
Self(v) == [aborted |-> FALSE, id |-> v]

\* raw with the bound included: assert!(id <= SPECIAL_RANGE.end)
raw_inclusive(n) == IF n <= SPECIAL_RANGE.end THEN Self(n) ELSE Abort

raw(n) == IF n < SPECIAL_RANGE.end THEN Self(n) ELSE Abort

sgi(n) == IF n < SGI_RANGE.end THEN Self(n) ELSE Abort

\* ppi checking against the end of the range instead of its length
ppi_unshifted(n) ==
    IF n < PPI_RANGE.end
    THEN Self(PPI_RANGE.start + n)
    ELSE Abort

ppi(n) ==
    IF n < PPI_RANGE.end - PPI_RANGE.start
    THEN Self(PPI_RANGE.start + n)
    ELSE Abort

spi(n) ==
    IF n < SPECIAL_RANGE.start
    THEN Self(SPI_RANGE.start + n)
    ELSE Abort

is_sgi(v) == Contains(SGI_RANGE, v)

\* is_private with the first SPI included
is_private_inclusive(v) == v <= SPI_RANGE.start

is_private(v) == v < SPI_RANGE.start

to_u32(v) == v

FromIntIdForU32(v) == v

\* fmt whose PPI arm subtracts the start of the SGI range
fmt_ppi_raw(v) ==
    IF      0 <= v /\ v < 16      THEN [prefix |-> "SGI ", num |-> v - SGI_RANGE.start]
    ELSE IF 16 <= v /\ v < 32     THEN [prefix |-> "PPI ", num |-> v - SGI_RANGE.start]
    ELSE IF 32 <= v /\ v < 1020   THEN [prefix |-> "SPI ", num |-> v - SPI_RANGE.start]
    ELSE IF 1020 <= v /\ v < 1024 THEN [prefix |-> "Special IntId", num |-> v]
    ELSE                               [prefix |-> "Invalid IntId", num |-> v]

\* Debug for IntId: write!(f, "<prefix>{}", number); the rendering is the
\* prefix followed by the decimal number.
fmt(v) ==
    IF      0 <= v /\ v < 16      THEN [prefix |-> "SGI ", num |-> v - SGI_RANGE.start]
    ELSE IF 16 <= v /\ v < 32     THEN [prefix |-> "PPI ", num |-> v - PPI_RANGE.start]
    ELSE IF 32 <= v /\ v < 1020   THEN [prefix |-> "SPI ", num |-> v - SPI_RANGE.start]
    ELSE IF 1020 <= v /\ v < 1024 THEN [prefix |-> "Special IntId", num |-> v]
    ELSE                               [prefix |-> "Invalid IntId", num |-> v]

----------------------------------------------------------------------------
(* The caller of the IntId functions *)

\* an argument far outside every range (2^31 - 1)
HugeArg == 2 * (Pow2(30) - 1) + 1

Args == (0 .. MaxArg) \cup {HugeArg}

\* nothing has been constructed yet
Fresh == ctor = "none" /\ conv = "none" /\ origin = "none"

Construct(name, n, r) ==
    /\ ctor' = name
    /\ arg' = n
    /\ aborted' = r.aborted
    /\ id' = r.id
    /\ obs' = NoObs
    /\ UNCHANGED <<mpidVars, cpuVars>>

CallRaw ==
    /\ Fresh
    /\ \E n \in Args : Construct("raw", n, raw(n))

CallSgi ==
    /\ Fresh
    /\ \E n \in Args : Construct("sgi", n, sgi(n))

CallPpi ==
    /\ Fresh
    /\ \E n \in Args : Construct("ppi", n, ppi(n))

CallSpi ==
    /\ Fresh
    /\ \E n \in Args : Construct("spi", n, spi(n))

Observe(name, r) ==
    /\ id # NoId
    /\ obs' = [op |-> name, val |-> r]
    /\ UNCHANGED <<ctor, arg, aborted, id>>
    /\ UNCHANGED <<mpidVars, cpuVars>>

CallIsSgi == Observe("is_sgi", is_sgi(id))

CallIsPrivate == Observe("is_private", is_private(id))

CallToU32 == Observe("to_u32", to_u32(id))

CallIntoU32 == Observe("into_u32", FromIntIdForU32(id))

CallFmt == Observe("fmt", fmt(id))

----------------------------------------------------------------------------
(* CPUTarget *)

CPUTarget(a0, a1, a2, a3) == [aff0 |-> a0, aff1 |-> a1, aff2 |-> a2, aff3 |-> a3]

CORE0 == CPUTarget(0, 0, 0, 0)

NoTarget == CPUTarget(-1, -1, -1, -1)

\* affinity with aff3 shifted to the place of aff2
affinity_aff3_at_16(t) ==
    BitOr(BitOr(BitOr(ZeroExtend(t.aff0, 32),
                      Shl(ZeroExtend(t.aff1, 32), 8)),
                Shl(ZeroExtend(t.aff2, 32), 16)),
          Shl(ZeroExtend(t.aff3, 32), 16))

\* self.aff0 as u32 | (self.aff1 as u32) << 8 | (self.aff2 as u32) << 16
\*                  | (self.aff3 as u32) << 24        (<< binds tighter than |)
affinity(t) ==
    BitOr(BitOr(BitOr(ZeroExtend(t.aff0, 32),
                      Shl(ZeroExtend(t.aff1, 32), 8)),
                Shl(ZeroExtend(t.aff2, 32), 16)),
          Shl(ZeroExtend(t.aff3, 32), 24))

\* 1 << self.aff0 on u8.  A shift amount of 8 or more overflows: a build with
\* overflow checks (debug) panics, a build without (release) shifts by the
\* amount modulo the width.
cpu_target_list(t, overflow_checks) ==
    IF t.aff0 >= 8 /\ overflow_checks
    THEN [panicked |-> TRUE, val |-> -1]
    ELSE [panicked |-> FALSE, val |-> (1 * Pow2(t.aff0 % 8)) % Pow2(8)]

----------------------------------------------------------------------------
(* MPID *)

\* #[repr(C)] struct MPID: the byte offset of each field
OffsetAff0 == 0
OffsetAff1 == 1
OffsetAff2 == 2
OffsetFlag == 3
OffsetAff3 == 4

\* the 32-bit field stored at bytes off .. off+3 of a 64-bit value in
\* little-endian memory
FieldU32(value, off) == [i \in 1 .. 32 |-> value[8 * off + i]]

\* a layout without the padding of the flag byte: aff3 read from byte 3
transmute_unpadded(value) ==
    [aff0 |-> ByteOf(value, OffsetAff0),
     aff1 |-> ByteOf(value, OffsetAff1),
     aff2 |-> ByteOf(value, OffsetAff2),
     flag |-> ByteOf(value, OffsetFlag),
     aff3 |-> FieldU32(value, OffsetFlag)]

\* core::mem::transmute::<u64, MPID>(value) on a little-endian target: byte k
\* of memory is byte k of the value
transmute(value) ==
    [aff0 |-> ByteOf(value, OffsetAff0),
     aff1 |-> ByteOf(value, OffsetAff1),
     aff2 |-> ByteOf(value, OffsetAff2),
     flag |-> ByteOf(value, OffsetFlag),
     aff3 |-> FieldU32(value, OffsetAff3)]

FromU64ForMPID(value) == transmute(value)

\* usize has the size of MPID (64 bits), or transmute does not compile
FromUsizeForMPID(value) == transmute(value)

FromMPIDForCPUTarget(value) ==
    CPUTarget(value.aff0, value.aff1, value.aff2, TruncU8(value.aff3))

NoMpid == [aff0 |-> 0, aff1 |-> 0, aff2 |-> 0, flag |-> 0, aff3 |-> ZeroExtend(0, 32)]

----------------------------------------------------------------------------
(* The caller of the CPUTarget functions *)

\* the values of aff0, which cpu_target_list shifts by
AffBytes == (0 .. MaxAffLow) \cup {128, 255}

\* the values of aff1, aff2, aff3: no bit, one bit at either end, alternate
\* bits, all bits
UpperAffBytes == {0, 1, 85, 128, 170, 255}

SetTarget(from, t) ==
    /\ origin' = from
    /\ target' = t
    /\ cpuObs' = NoObs

NewTarget ==
    /\ Fresh
    /\ \E a0 \in AffBytes : \E a1, a2, a3 \in UpperAffBytes :
          SetTarget("fields", CPUTarget(a0, a1, a2, a3))
    /\ UNCHANGED <<intIdVars, mpidVars>>

UseCore0 ==
    /\ Fresh
    /\ SetTarget("CORE0", CORE0)
    /\ UNCHANGED <<intIdVars, mpidVars>>

CallAffinity ==
    /\ origin # "none"
    /\ cpuObs' = [op |-> "affinity", val |-> affinity(target)]
    /\ UNCHANGED <<intIdVars, mpidVars, origin, target>>

CallCpuTargetList ==
    /\ origin # "none"
    /\ \E overflow_checks \in BOOLEAN :
          cpuObs' = [op |-> "cpu_target_list", val |-> cpu_target_list(target, overflow_checks)]
    /\ UNCHANGED <<intIdVars, mpidVars, origin, target>>

----------------------------------------------------------------------------
(* The caller of the MPID conversions *)

RegBytes == (0 .. MaxRegByte) \cup {255}

\* bits 40..63 of the register, which no field of CPUTarget keeps
HighBytes == {0, 255}

\* aff0 | aff1 << 8 | aff2 << 16 | r << 24 | aff3 << 32 | b5 << 40 | b6 << 48
\*      | b7 << 56 on u64: the register value with byte k = b[k+1]
RECURSIVE PackU64(_, _)
PackU64(b, k) ==
    IF k = 0 THEN ZeroExtend(b[1], 64)
    ELSE BitOr(PackU64(b, k - 1), Shl(ZeroExtend(b[k + 1], 64), 8 * k))

\* the eight bytes of a register value
RegisterBytes ==
    RegBytes \X RegBytes \X RegBytes \X RegBytes \X RegBytes
        \X HighBytes \X HighBytes \X HighBytes

ReadRegister(kind, b, value, m) ==
    /\ packed' = b
    /\ rawReg' = value
    /\ mpid' = m
    /\ conv' = kind
    /\ UNCHANGED <<intIdVars, cpuVars>>

MpidFromU64 ==
    /\ Fresh
    /\ \E b \in RegisterBytes :
          LET value == PackU64(b, 7)
          IN  ReadRegister("u64", b, value, FromU64ForMPID(value))

MpidFromUsize ==
    /\ Fresh
    /\ \E b \in RegisterBytes :
          LET value == PackU64(b, 7)
          IN  ReadRegister("usize", b, value, FromUsizeForMPID(value))

CpuTargetFromMpid ==
    /\ conv # "none"
    /\ SetTarget("mpid", FromMPIDForCPUTarget(mpid))
    /\ UNCHANGED <<intIdVars, mpidVars>>

----------------------------------------------------------------------------

Init ==
    /\ ctor = "none"
    /\ arg = 0
    /\ aborted = FALSE
    /\ id = NoId
    /\ obs = NoObs
    /\ packed = <<>>
    /\ rawReg = ZeroExtend(0, 64)
    /\ conv = "none"
    /\ mpid = NoMpid
    /\ origin = "none"
    /\ target = NoTarget
    /\ cpuObs = NoObs

Next ==
    \/ CallRaw
    \/ CallSgi
    \/ CallPpi
    \/ CallSpi
    \/ CallIsSgi
    \/ CallIsPrivate
    \/ CallToU32
    \/ CallIntoU32
    \/ CallFmt
    \/ NewTarget
    \/ UseCore0
    \/ CallAffinity
    \/ CallCpuTargetList
    \/ MpidFromU64
    \/ MpidFromUsize
    \/ CpuTargetFromMpid

Spec == Init /\ [][Next]_vars

----------------------------------------------------------------------------
(* Properties of the interrupt-ID space *)

\* C1: every IntId a constructor (raw, sgi, ppi, spi) returns has
\* to_u32() < 1024.
C1_IdBelow1024 ==
    (ctor # "none" /\ ~aborted) => to_u32(id) < 1024

\* C2: spi(n) returns the identifier 32 + n exactly when n < 988 and aborts
\* for every n >= 988.
C2_SpiAbortsFrom988 ==
    ctor = "spi" =>
        IF arg < 988
        THEN ~aborted /\ id = 32 + arg
        ELSE aborted /\ id = NoId

\* C3: for n < 1024, raw(n) succeeds and to_u32() and u32::from of the result
\* are n; for n >= 1024, raw(n) aborts and yields no identifier.
C3_RawRoundTrip ==
    ctor = "raw" =>
        IF arg < 1024
        THEN /\ ~aborted
             /\ id = arg
             /\ obs.op = "to_u32" => obs.val = arg
             /\ obs.op = "into_u32" => obs.val = arg
        ELSE aborted /\ id = NoId

C3_Witness ==
    /\ ctor = "raw" /\ arg = 1023 /\ ~aborted
    /\ obs.op = "into_u32" /\ obs.val = 1023

\* C4: sgi(n) returns n exactly when n < 16, ppi(n) returns 16 + n exactly
\* when n < 16, both abort for n >= 16, and no ppi result reaches the SPI
\* range.
C4_SgiPpiDomain ==
    /\ ctor = "sgi" =>
          IF arg < 16 THEN ~aborted /\ id = arg ELSE aborted /\ id = NoId
    /\ ctor = "ppi" =>
          IF arg < 16
          THEN ~aborted /\ id = 16 + arg /\ ~Contains(SPI_RANGE, id)
          ELSE aborted /\ id = NoId

C4_Witness ==
    ctor = "ppi" /\ arg = 15 /\ ~aborted /\ id = 31

\* C5: is_sgi() holds iff the value is below 16 and is_private() iff it is
\* below 32; so sgi(n) is SGI and private, ppi(n) is private and not SGI,
\* and spi(n) for n < 988 is neither.
C5_Classification ==
    /\ obs.op = "is_sgi" =>
          /\ obs.val = (id < 16)
          /\ ctor = "sgi" => obs.val = TRUE
          /\ ctor = "ppi" => obs.val = FALSE
          /\ (ctor = "spi" /\ arg < 988) => obs.val = FALSE
    /\ obs.op = "is_private" =>
          /\ obs.val = (id < 32)
          /\ ctor = "sgi" => obs.val = TRUE
          /\ ctor = "ppi" => obs.val = TRUE
          /\ (ctor = "spi" /\ arg < 988) => obs.val = FALSE

C5_Witness ==
    /\ ctor = "spi" /\ arg = 0 /\ id = 32
    /\ obs.op = "is_private" /\ obs.val = FALSE

\* C6: the Debug rendering of an identifier made by raw, sgi, ppi or spi
\* never takes the "Invalid" arm.
C6_NeverRendersInvalid ==
    obs.op = "fmt" => obs.val.prefix # "Invalid IntId"

\* C10 as stated: the rendering of v < 1024 is the category name followed by
\* the offset within the category, v - 1020 for a Special identifier.
C10_OffsetInEveryCategory ==
    (ctor = "raw" /\ obs.op = "fmt" /\ id < 1024) =>
        /\ Contains(SGI_RANGE, id) => obs.val = [prefix |-> "SGI ", num |-> id]
        /\ Contains(PPI_RANGE, id) => obs.val = [prefix |-> "PPI ", num |-> id - 16]
        /\ Contains(SPI_RANGE, id) => obs.val = [prefix |-> "SPI ", num |-> id - 32]
        /\ Contains(SPECIAL_RANGE, id) =>
              obs.val = [prefix |-> "Special IntId", num |-> id - 1020]

\* C10 amended: the rendering of v < 1024 is "SGI v" for v in [0,16),
\* "PPI v-16" for v in [16,32), "SPI v-32" for v in [32,1020) and
\* "Special IntId" followed by v itself for v in [1020,1024); each v matches
\* exactly one of the four categories.
C10_Rendering ==
    (obs.op = "fmt" /\ id < 1024) =>
        /\ (obs.val.prefix = "SGI ") = (0 <= id /\ id < 16)
        /\ (obs.val.prefix = "PPI ") = (16 <= id /\ id < 32)
        /\ (obs.val.prefix = "SPI ") = (32 <= id /\ id < 1020)
        /\ (obs.val.prefix = "Special IntId") = (1020 <= id /\ id < 1024)
        /\ obs.val.prefix = "SGI " => obs.val.num = id
        /\ obs.val.prefix = "PPI " => obs.val.num = id - 16
        /\ obs.val.prefix = "SPI " => obs.val.num = id - 32
        /\ obs.val.prefix = "Special IntId" => obs.val.num = id

C10_Witness ==
    /\ ctor = "raw" /\ id = 1021
    /\ obs.op = "fmt" /\ obs.val = [prefix |-> "Special IntId", num |-> 1021]

----------------------------------------------------------------------------
(* Properties of the CPU affinity encoding *)

\* C7: byte k of affinity() is affk, so the value is
\* aff0 + aff1*2^8 + aff2*2^16 + aff3*2^24 and determines the target;
\* CORE0 gives 0 and the target (3,0,0,0) gives 3.
C7_AffinityPacksBytes ==
    cpuObs.op = "affinity" =>
        /\ Len(cpuObs.val) = 32
        /\ ByteOf(cpuObs.val, 0) = target.aff0
        /\ ByteOf(cpuObs.val, 1) = target.aff1
        /\ ByteOf(cpuObs.val, 2) = target.aff2
        /\ ByteOf(cpuObs.val, 3) = target.aff3
        /\ target.aff3 < 128 =>
              BitsValue(cpuObs.val, 1, 32) =
                  target.aff0 + target.aff1 * Pow2(8) + target.aff2 * Pow2(16)
                  + target.aff3 * Pow2(24)
        /\ origin = "CORE0" => cpuObs.val = ZeroExtend(0, 32)
        /\ target = CPUTarget(3, 0, 0, 0) => cpuObs.val = ZeroExtend(3, 32)

C7_Witness ==
    /\ origin = "fields" /\ target = CPUTarget(3, 128, 85, 255)
    /\ cpuObs.op = "affinity"
    /\ ByteOf(cpuObs.val, 3) = 255 /\ ByteOf(cpuObs.val, 2) = 85

\* C8: cpu_target_list() never aborts; for aff0 < 8 it returns 2^aff0, and
\* for aff0 >= 8 it still returns a u8.
C8_TargetListNeverPanics ==
    cpuObs.op = "cpu_target_list" =>
        /\ ~cpuObs.val.panicked
        /\ cpuObs.val.val \in 0 .. 255
        /\ target.aff0 < 8 => cpuObs.val.val = Pow2(target.aff0)

\* C9: with raw = aff0 | aff1<<8 | aff2<<16 | r<<24 | aff3<<32 and any bits
\* 40..63, CPUTarget::from(MPID::from(raw)) has the fields
\* (aff0, aff1, aff2, aff3) whatever r and bits 40..63 are, through the u64
\* and the usize conversion alike.
C9_RegisterRoundTrip ==
    /\ conv # "none" =>
          /\ mpid.aff0 = packed[1]
          /\ mpid.aff1 = packed[2]
          /\ mpid.aff2 = packed[3]
          /\ \A k \in 0 .. 3 : ByteOf(mpid.aff3, k) = packed[5 + k]
    /\ origin = "mpid" =>
          target = CPUTarget(packed[1], packed[2], packed[3], packed[5])

C9_Witness ==
    /\ conv = "usize" /\ origin = "mpid"
    /\ packed = <<1, 0, 255, 255, 1, 255, 0, 255>>
    /\ target = CPUTarget(1, 0, 255, 1)

====
